---- MODULE Spec2Model ----
(***************************************************************************)
(* The request orchestrator of src/app.py (class Model): the web_inference *)
(* endpoint that parses a request, picks one of three pipelines by         *)
(* substring tests on the prompt, and returns a lazy stream produced by    *)
(* _inference, _online_inference or _event_schedule_runner; the fields of  *)
(* the shared Model instance those generators read and write; and the      *)
(* retrieval planner built in enter().                                     *)
(*                                                                         *)
(* Text is a sequence of one-character strings, so that Python's           *)
(* `needle in haystack` is a real substring search and `a + b` is          *)
(* concatenation.                                                          *)
(***************************************************************************)
EXTENDS Integers, Sequences, FiniteSets, TLC

VARIABLES
    today,             \* wall-clock date (proleptic ordinal), datetime.today()
    current_date,      \* self.current_date
    day_name,          \* self.day_name
    content_template,  \* self.content_template
    chat_engine,       \* self.chat_engine: 0 = the engine built by enter(),
                       \* r = the engine returned by request r's run_offline()
    pc,                \* per request: position in web_inference / its generator
    item,              \* per request: the request body
    image_response,    \* per request: local image_response of web_inference
    prompt,            \* per request: local prompt, as handed to the pipeline
    pipeline,          \* per request: which generator the StreamingResponse wraps
    handler,           \* per request: the arguments the handler was built with
    transcript,        \* per request: the chat history its pipeline works on
    out,               \* per request: what the caller has received
    plan_pc,           \* planner: position in plan_and_dispatch
    candidates,        \* planner: the decomposition step's raw output
    sub_questions,     \* planner: the sub-questions dispatched
    tool_state,        \* planner: the ToolAnswer of each dispatched sub-question
    plan_result        \* planner: the outcome handed to synthesis

vars == << today, current_date, day_name, content_template, chat_engine,
           pc, item, image_response, prompt, pipeline, handler, transcript, out,
           plan_pc, candidates, sub_questions, tool_state, plan_result >>

instance_vars == << current_date, day_name, content_template, chat_engine >>
request_vars == << pc, item, image_response, prompt, pipeline, handler, transcript, out >>
plan_vars == << plan_pc, candidates, sub_questions, tool_state, plan_result >>

----
(* Bounds *)

NumReq == 2
MaxFrag == 2
MaxDrift == 1
BootDay == 739000
MaxSubQ == 2

Req == 1..NumReq

----
(* Text *)

Schedule == << "s", "c", "h", "e", "d", "u", "l", "e" >>
AtInternet == << "@", "i", "n", "t", "e", "r", "n", "e", "t" >>

\* Python: needle in hay
Contains(hay, needle) ==
    \E i \in 0..(Len(hay) - Len(needle)) :
        SubSeq(hay, i + 1, i + Len(needle)) = needle

\* f"\nTerra User ID: {terra_user_id}" without the id
TerraPrefix ==
    << "\n", "T", "e", "r", "r", "a", " ", "U", "s", "e", "r", " ", "I", "D", ":", " " >>

\* "\n" + "Additional information about the image uploaded \n "
ImagePrefix ==
    << "\n" >> \o
    << "A", "d", "d", "i", "t", "i", "o", "n", "a", "l", " " >> \o
    << "i", "n", "f", "o", "r", "m", "a", "t", "i", "o", "n", " " >> \o
    << "a", "b", "o", "u", "t", " ", "t", "h", "e", " " >> \o
    << "i", "m", "a", "g", "e", " " >> \o
    << "u", "p", "l", "o", "a", "d", "e", "d", " ", "\n", " " >>

Empty == << >>

----
(* Request bodies *)

Hi == << "h", "i" >>
Sp == << " " >>
PromptTexts ==
    { Hi,
      Schedule,
      << "S" >> \o Tail(Schedule),
      Hi \o Sp \o AtInternet,
      Schedule \o Sp \o AtInternet,
      SubSeq(Schedule, 1, 5) \o Sp \o SubSeq(Schedule, 6, 8) }

\* item.get("terra_user_id", None): Empty stands for an absent (or empty) id
TerraIds == { Empty, << "u", "7" >>, Schedule }

ImageUrl == << "u", "r", "l" >>
TextPart(t) == [type |-> "text", text |-> t, url |-> Empty]
ImagePart(u) == [type |-> "image_url", text |-> Empty, url |-> u]

\* item["prompt"]: a str, or a list of typed parts
StrPrompt(t) == [is_list |-> FALSE, text |-> t, parts |-> << >>]
ListPrompt(ps) == [is_list |-> TRUE, text |-> Empty, parts |-> ps]

Turn(role, content) == [role |-> role, content |-> content]
History0 == << Turn("user", << "q" >>), Turn("assistant", << "a" >>) >>

MkItem(p, m, t) == [prompt |-> p, messages |-> m, terra_user_id |-> t]

\* the request bodies the routing specification draws from
RouteItems ==
    { MkItem(p, History0, t) :
        p \in { StrPrompt(x) : x \in PromptTexts }
              \cup { ListPrompt(<< TextPart(x), ImagePart(ImageUrl) >>) : x \in PromptTexts }
              \cup { ListPrompt(<< ImagePart(ImageUrl), TextPart(Hi), TextPart(x) >>) :
                        x \in { Schedule } },
        t \in TerraIds }

\* the request bodies the streaming specification draws from: one per mode
StreamItems ==
    { MkItem(StrPrompt(x), History0, Empty) :
        x \in { Hi, Schedule, Hi \o Sp \o AtInternet } }

\* ImageHandler(image_url).run().text: the summary the external image model gives
ImageSummaries == { << "c", "a", "t" >> }

----
(* web_inference *)

NoPipeline == "none"
LiveWebPipeline == "LiveWebPipeline"
SchedulingPipeline == "SchedulingPipeline"
RetrievalPipeline == "RetrievalPipeline"
Pipelines == { LiveWebPipeline, SchedulingPipeline, RetrievalPipeline }

\* the for-loop over item["prompt"]: the last part of a type wins, "" if none
RECURSIVE LastText(_, _)
LastText(parts, acc) ==
    IF parts = << >> THEN acc
    ELSE LastText(Tail(parts),
                  IF Head(parts).type = "text" THEN Head(parts).text ELSE acc)

RECURSIVE LastUrl(_, _)
LastUrl(parts, acc) ==
    IF parts = << >> THEN acc
    ELSE LastUrl(Tail(parts),
                 IF Head(parts).type = "image_url" THEN Head(parts).url ELSE acc)

ParsedPrompt(it) ==
    IF it.prompt.is_list THEN LastText(it.prompt.parts, Empty) ELSE it.prompt.text

ParsedImageUrl(it) ==
    IF it.prompt.is_list THEN LastUrl(it.prompt.parts, Empty) ELSE Empty

\* image_response: "" unless an image url was given
NoImageResponse == [set |-> FALSE, text |-> Empty]
ImageResponse(it, summary) ==
    IF ParsedImageUrl(it) # Empty THEN [set |-> TRUE, text |-> summary]
    ELSE NoImageResponse

\* if terra_user_id: prompt = prompt + f"\nTerra User ID: {terra_user_id}"
WithTerraId(p, terra_user_id) ==
    IF terra_user_id # Empty THEN p \o TerraPrefix \o terra_user_id ELSE p

\* the prompt the substring tests read
RoutedPrompt(it) == WithTerraId(ParsedPrompt(it), it.terra_user_id)

RouteScheduleFirst(p) ==
    IF Contains(p, Schedule) THEN SchedulingPipeline
    ELSE IF Contains(p, AtInternet) THEN LiveWebPipeline
    ELSE RetrievalPipeline

\* the two `if ... in prompt: return` tests and the fall-through
Route(p) ==
    IF Contains(p, AtInternet) THEN LiveWebPipeline
    ELSE IF Contains(p, Schedule) THEN SchedulingPipeline
    ELSE RetrievalPipeline

\* if image_response != "": prompt = prompt + "\n" + "Additional ..." + text
WithImageSummary(p, resp) ==
    IF resp.set THEN p \o ImagePrefix \o resp.text ELSE p

\* the prompt= argument of the generator the StreamingResponse wraps
HandedPrompt(it, resp) ==
    IF Route(RoutedPrompt(it)) = RetrievalPipeline
    THEN WithImageSummary(RoutedPrompt(it), resp)
    ELSE RoutedPrompt(it)

NoHandler == [built |-> FALSE, user_info_content |-> Empty, chat_engine |-> 0,
              current_date |-> 0]

\* web_inference(request, item): returns a StreamingResponse whose generator
\* has not run yet
web_inference(r, it, summary) ==
    /\ pc[r] = "idle"
    /\ item' = [item EXCEPT ![r] = it]
    /\ image_response' = [image_response EXCEPT ![r] = ImageResponse(it, summary)]
    /\ pipeline' = [pipeline EXCEPT ![r] = Route(RoutedPrompt(it))]
    /\ prompt' = [prompt EXCEPT ![r] = HandedPrompt(it, ImageResponse(it, summary))]
    /\ pc' = [pc EXCEPT ![r] = "ready"]
    /\ UNCHANGED << today, instance_vars, handler, transcript, out, plan_vars >>

----
(* enter() *)

DayNames ==
    << "Monday", "Tuesday", "Wednesday", "Thursday", "Friday", "Saturday", "Sunday" >>

\* date.weekday() of a proleptic ordinal: ordinal 1 is a Monday
Weekday(d) == (d + 6) % 7

DayName(d) == DayNames[Weekday(d) + 1]

\* the f-string of self.content_template: its fixed text and its two holes
ContentTemplate(d, name) ==
    [phase |-> "Follicular", date |-> d, day |-> name, location |-> "New York City"]

\* datetime.today() -> strftime("%Y-%m-%d") -> strptime -> .date()
DateToday == today

NoPlanResult == [status |-> "none", answer |-> Empty]

NoItem == MkItem(StrPrompt(Empty), << >>, Empty)

Init ==
    /\ today = BootDay
    /\ current_date = DateToday
    /\ day_name = DayName(DateToday)
    /\ content_template = ContentTemplate(DateToday, DayName(DateToday))
    /\ chat_engine = 0
    /\ pc = [r \in Req |-> "idle"]
    /\ item = [r \in Req |-> NoItem]
    /\ image_response = [r \in Req |-> NoImageResponse]
    /\ prompt = [r \in Req |-> Empty]
    /\ pipeline = [r \in Req |-> NoPipeline]
    /\ handler = [r \in Req |-> NoHandler]
    /\ transcript = [r \in Req |-> << >>]
    /\ out = [r \in Req |-> << >>]
    /\ plan_pc = "idle"
    /\ candidates = << >>
    /\ sub_questions = << >>
    /\ tool_state = << >>
    /\ plan_result = NoPlanResult

----
(* The routing specification: requests arrive and are routed *)

RouteRequest ==
    \E r \in Req, it \in RouteItems, summary \in ImageSummaries :
        web_inference(r, it, summary)

NextRoute == RouteRequest

SpecRoute == Init /\ [][NextRoute]_vars

----
(* The generators behind the StreamingResponse *)

\* the i-th fragment the upstream model streams
Frag(i) == ToString(i)

\* ChatHandler.run_offline(): the engine it returns holds the transcript so
\* far and the user's new message
RunOfflineHistory(messages, p) == messages \o << Turn("user", p) >>

\* ChatHandler.run_online(): curr_history, the transcript plus the query
RunOnlineHistory(messages, p) == messages \o << Turn("user", p) >>

\* the chat engine's stream, once exhausted, records the finalized reply
FinalizedHistory(history, fragments) ==
    Append(history, Turn("assistant", fragments))

\* the memory of the engine self.chat_engine refers to
EngineMemory(e) == IF e = 0 THEN << >> ELSE transcript[e]

ScheduleDateWallClock == DateToday

\* current_date=self.current_date
ScheduleDate == current_date

\* user_info_content=self.content_template
UserInfoContent == content_template

\* _inference, first next(): chat_handler = ChatHandler(..., chat_engine=self.chat_engine, ...)
inference_construct(r) ==
    /\ pc[r] = "ready"
    /\ pipeline[r] = RetrievalPipeline
    /\ handler' = [handler EXCEPT ![r] =
                     [built |-> TRUE, user_info_content |-> UserInfoContent,
                      chat_engine |-> chat_engine, current_date |-> 0]]
    /\ pc' = [pc EXCEPT ![r] = "constructed"]
    /\ UNCHANGED << today, instance_vars, item, image_response, prompt, pipeline,
                    transcript, out, plan_vars >>

\* self.chat_engine, streaming_response = chat_handler.run_offline()
inference_run_offline(r) ==
    /\ pc[r] = "constructed"
    /\ transcript' = [transcript EXCEPT ![r] =
                        RunOfflineHistory(item[r].messages, prompt[r])]
    /\ chat_engine' = r
    /\ pc' = [pc EXCEPT ![r] = "streaming"]
    /\ UNCHANGED << today, current_date, day_name, content_template, item,
                    image_response, prompt, pipeline, handler, out, plan_vars >>

\* run_offline() raises (retrieval unavailable, synthesis failed): the
\* assignment of its result does not happen and the generator raises
inference_run_offline_raises(r) ==
    /\ pc[r] = "constructed"
    /\ pc' = [pc EXCEPT ![r] = "raised"]
    /\ UNCHANGED << today, instance_vars, item, image_response, prompt, pipeline,
                    handler, transcript, out, plan_vars >>

\* _online_inference, first next(): ChatHandler(...), run_online(), stream_chat()
online_inference_start(r) ==
    /\ pc[r] = "ready"
    /\ pipeline[r] = LiveWebPipeline
    /\ handler' = [handler EXCEPT ![r] =
                     [built |-> TRUE, user_info_content |-> UserInfoContent,
                      chat_engine |-> 0, current_date |-> 0]]
    /\ transcript' = [transcript EXCEPT ![r] =
                        RunOnlineHistory(item[r].messages, prompt[r])]
    /\ pc' = [pc EXCEPT ![r] = "streaming"]
    /\ UNCHANGED << today, instance_vars, item, image_response, prompt, pipeline,
                    out, plan_vars >>

\* _event_schedule_runner, first next(): EventSchedulerHandler(...).run()
event_schedule_start(r) ==
    /\ pc[r] = "ready"
    /\ pipeline[r] = SchedulingPipeline
    /\ handler' = [handler EXCEPT ![r] =
                     [built |-> TRUE, user_info_content |-> Empty,
                      chat_engine |-> 0, current_date |-> ScheduleDate]]
    /\ transcript' = [transcript EXCEPT ![r] = item[r].messages]
    /\ pc' = [pc EXCEPT ![r] = "streaming"]
    /\ UNCHANGED << today, instance_vars, item, image_response, prompt, pipeline,
                    out, plan_vars >>

\* for token in ...: yield token
stream_yield(r) ==
    /\ pc[r] = "streaming"
    /\ Len(out[r]) < MaxFrag
    /\ out' = [out EXCEPT ![r] = Append(out[r], Frag(Len(out[r]) + 1))]
    /\ UNCHANGED << today, instance_vars, pc, item, image_response, prompt, pipeline,
                    handler, transcript, plan_vars >>

\* what the end of the stream leaves in the request's transcript: only the
\* chat engine of the retrieval pipeline records the reply; the other two
\* generators end with their loop
TranscriptAtEnd(r) ==
    IF pipeline[r] = RetrievalPipeline
    THEN FinalizedHistory(transcript[r], out[r])
    ELSE transcript[r]

\* the underlying stream is exhausted: the for loop ends, the generator returns
stream_exhausted(r) ==
    /\ pc[r] = "streaming"
    /\ transcript' = [transcript EXCEPT ![r] = TranscriptAtEnd(r)]
    /\ pc' = [pc EXCEPT ![r] = "done"]
    /\ UNCHANGED << today, instance_vars, item, image_response, prompt, pipeline,
                    handler, out, plan_vars >>

\* what the caller has received once the underlying stream has raised: the
\* generators have no try/except, the exception leaves them as it is
OutAfterRaise(r) == out[r]

\* the underlying stream raises inside the for loop
stream_raises(r) ==
    /\ pc[r] = "streaming"
    /\ out' = [out EXCEPT ![r] = OutAfterRaise(r)]
    /\ pc' = [pc EXCEPT ![r] = "raised"]
    /\ UNCHANGED << today, instance_vars, item, image_response, prompt, pipeline,
                    handler, transcript, plan_vars >>

\* the caller closes the generator while it is suspended at a yield
stream_cancelled(r) ==
    /\ pc[r] = "streaming"
    /\ Len(out[r]) >= 1
    /\ pc' = [pc EXCEPT ![r] = "cancelled"]
    /\ UNCHANGED << today, instance_vars, item, image_response, prompt, pipeline,
                    handler, transcript, out, plan_vars >>

\* the wall clock passes midnight while the container stays warm
Tick ==
    /\ today < BootDay + MaxDrift
    /\ today' = today + 1
    /\ UNCHANGED << instance_vars, request_vars, plan_vars >>

Receive ==
    \E r \in Req, it \in StreamItems, summary \in ImageSummaries :
        web_inference(r, it, summary)

Next ==
    \/ Receive
    \/ \E r \in Req : inference_construct(r)
    \/ \E r \in Req : inference_run_offline(r)
    \/ \E r \in Req : inference_run_offline_raises(r)
    \/ \E r \in Req : online_inference_start(r)
    \/ \E r \in Req : event_schedule_start(r)
    \/ \E r \in Req : stream_yield(r)
    \/ \E r \in Req : stream_exhausted(r)
    \/ \E r \in Req : stream_raises(r)
    \/ \E r \in Req : stream_cancelled(r)
    \/ Tick

Spec == Init /\ [][Next]_vars

----
(* The retrieval planner: the sub-question query engine enter() builds over
   the registry of tools_data *)

\* the "name" of each entry of tools_data
ToolNamesWithWeather ==
    { "mood/feeling", "diet/nutrition", "general", "fitness/wellness", "NOTA",
      "database", "weather" }

ToolNames ==
    { "mood/feeling", "diet/nutrition", "general", "fitness/wellness", "NOTA",
      "database" }

\* tools_data, in order: the "name" of each entry
ToolsDataNames ==
    << "mood/feeling", "diet/nutrition", "general", "fitness/wellness", "NOTA",
       "database" >>

FallbackToolMisnamed == "none of the above"

\* the entry built on the empty query engine
FallbackTool == "NOTA"

\* a tool name the decomposition model may invent
UnknownTool == "weather"

SubQuestion(tool_name, query_text) == [tool_name |-> tool_name, query_text |-> query_text]

Query == Hi

\* what the decomposition step may return: up to MaxSubQ candidates, each
\* naming a registered tool or one that does not exist
CandidateLists ==
    UNION { [1..n -> { SubQuestion(t, Query) : t \in ToolNames \cup { UnknownTool } }] :
              n \in 0..MaxSubQ }

\* candidates naming a tool absent from the registry are dropped
RECURSIVE KeepKnown(_)
KeepKnown(cands) ==
    IF cands = << >> THEN << >>
    ELSE IF Head(cands).tool_name \in ToolNames
         THEN << Head(cands) >> \o KeepKnown(Tail(cands))
         ELSE KeepKnown(Tail(cands))

\* zero sub-questions: the original query goes to the fallback tool alone
Dispatched(cands) ==
    IF KeepKnown(cands) = << >> THEN << SubQuestion(FallbackTool, Query) >>
    ELSE KeepKnown(cands)

Running(tool_name) == [tool_name |-> tool_name, status |-> "running", answer_text |-> Empty]
\* a tool's answer, labelled by the tool it came from
Answered(tool_name) == [tool_name |-> tool_name, status |-> "ok", answer_text |-> << tool_name >>]
\* a failed invocation is recorded with no text
Failed(tool_name) == [tool_name |-> tool_name, status |-> "failed", answer_text |-> Empty]

RECURSIVE ConcatAnswers(_)
ConcatAnswers(answers) ==
    IF answers = << >> THEN << >>
    ELSE Head(answers).answer_text \o ConcatAnswers(Tail(answers))

NumFailed(answers) == Cardinality({ i \in DOMAIN answers : answers[i].status = "failed" })

PlanOutcomeAbortOnFailure(answers) ==
    IF NumFailed(answers) > 0
    THEN [status |-> "RetrievalUnavailable", answer |-> Empty]
    ELSE [status |-> "synthesized", answer |-> ConcatAnswers(answers)]

\* fan-in: all invocations failed is RetrievalUnavailable, otherwise synthesis
\* proceeds with the answers that arrived
PlanOutcome(answers) ==
    IF NumFailed(answers) = Len(answers)
    THEN [status |-> "RetrievalUnavailable", answer |-> Empty]
    ELSE [status |-> "synthesized", answer |-> ConcatAnswers(answers)]

\* decomposition, then the concurrent dispatch of every kept sub-question
plan_and_dispatch(cands) ==
    /\ plan_pc = "idle"
    /\ candidates' = cands
    /\ sub_questions' = Dispatched(cands)
    /\ tool_state' = [i \in DOMAIN Dispatched(cands) |-> Running(Dispatched(cands)[i].tool_name)]
    /\ plan_pc' = "dispatched"
    /\ UNCHANGED << today, instance_vars, request_vars, plan_result >>

\* one tool invocation returns
tool_answers(i) ==
    /\ plan_pc = "dispatched"
    /\ tool_state[i].status = "running"
    /\ tool_state' = [tool_state EXCEPT ![i] = Answered(tool_state[i].tool_name)]
    /\ UNCHANGED << today, instance_vars, request_vars, plan_pc, candidates,
                    sub_questions, plan_result >>

\* one tool invocation times out or fails upstream
tool_fails(i) ==
    /\ plan_pc = "dispatched"
    /\ tool_state[i].status = "running"
    /\ tool_state' = [tool_state EXCEPT ![i] = Failed(tool_state[i].tool_name)]
    /\ UNCHANGED << today, instance_vars, request_vars, plan_pc, candidates,
                    sub_questions, plan_result >>

\* every invocation has ended: synthesis, or RetrievalUnavailable
plan_fan_in ==
    /\ plan_pc = "dispatched"
    /\ \A i \in DOMAIN tool_state : tool_state[i].status # "running"
    /\ plan_result' = PlanOutcome(tool_state)
    /\ plan_pc' = "done"
    /\ UNCHANGED << today, instance_vars, request_vars, candidates, sub_questions,
                    tool_state >>

NextPlan ==
    \/ \E cands \in CandidateLists : plan_and_dispatch(cands)
    \/ \E i \in DOMAIN tool_state : tool_answers(i)
    \/ \E i \in DOMAIN tool_state : tool_fails(i)
    \/ plan_fan_in

SpecPlan == Init /\ [][NextPlan]_vars

----
(* Properties *)

Routed(r) == pc[r] # "idle"

\* C1: every routed request has exactly one pipeline, chosen from the prompt
\* the substring tests read with a fixed priority: the live-web pipeline if
\* it contains "@internet" (also when it contains "schedule"), otherwise the
\* scheduling pipeline if it contains "schedule", otherwise retrieval.
C1_RoutePriorityTotal ==
    \A r \in Req :
        Routed(r) =>
            LET p == RoutedPrompt(item[r]) IN
            /\ pipeline[r] \in Pipelines
            /\ Contains(p, AtInternet) => pipeline[r] = LiveWebPipeline
            /\ (~Contains(p, AtInternet) /\ Contains(p, Schedule))
                   => pipeline[r] = SchedulingPipeline
            /\ (~Contains(p, AtInternet) /\ ~Contains(p, Schedule))
                   => pipeline[r] = RetrievalPipeline
            /\ Contains(ParsedPrompt(item[r]), AtInternet)
                   => pipeline[r] = LiveWebPipeline

\* a prompt holding both markers, "schedule" first, went to the live-web pipeline
C1_Witness ==
    \E r \in Req :
        /\ Routed(r)
        /\ ParsedPrompt(item[r]) = Schedule \o Sp \o AtInternet
        /\ pipeline[r] = LiveWebPipeline

\* C2: the pipeline depends only on the raw user prompt text: two requests
\* with the same user text get the same pipeline, whatever their
\* terra_user_id.
C2_RouteReadsOnlyUserText ==
    \A r1, r2 \in Req :
        (Routed(r1) /\ Routed(r2)
            /\ ParsedPrompt(item[r1]) = ParsedPrompt(item[r2]))
        => pipeline[r1] = pipeline[r2]

\* C3: for every request carrying an image reference, the prompt handed to
\* the selected pipeline, whichever it is, contains the image summary.
C3_ImageSummaryReachesEveryPipeline ==
    \A r \in Req :
        (Routed(r) /\ ParsedImageUrl(item[r]) # Empty)
        => Contains(prompt[r], ImagePrefix \o image_response[r].text)

AssistantTurns(history) ==
    Cardinality({ i \in DOMAIN history : history[i].role = "assistant" })

\* C4: a retrieval or live-web run gains no assistant Turn while fragments
\* are being produced, and on completion its transcript has gained exactly
\* one: the assistant Turn holding the streamed reply, as its last Turn.
C4_OneAssistantTurnOnCompletion ==
    \A r \in Req :
        pipeline[r] \in { RetrievalPipeline, LiveWebPipeline } =>
            /\ pc[r] = "streaming" =>
                   AssistantTurns(transcript[r]) = AssistantTurns(item[r].messages)
            /\ pc[r] = "done" =>
                   /\ AssistantTurns(transcript[r]) = AssistantTurns(item[r].messages) + 1
                   /\ transcript[r][Len(transcript[r])] = Turn("assistant", out[r])

OthersIdle(r) == \A q \in Req \ {r} : pc[q] = "idle"

\* C5: a run that raised mid-way, or was cancelled after its first fragment,
\* leaves the conversational state as it was before its stream: no Turn is
\* gained, and (no other request having run) the server still holds the chat
\* engine, and the memory, it held before.
C5_IncompleteRunChangesNothing ==
    \A r \in Req :
        (pc[r] \in { "raised", "cancelled" } /\ out[r] # << >> /\ OthersIdle(r)) =>
            /\ AssistantTurns(transcript[r]) <= AssistantTurns(item[r].messages)
            /\ chat_engine = 0
            /\ EngineMemory(chat_engine) = << >>

RegistryNamesOfClaim ==
    { "mood/feeling", "diet/nutrition", "general", "fitness/wellness", "NOTA",
      "database" }

\* C6: every dispatched sub-question names one of the six registry tools,
\* and a candidate naming an absent tool is dropped while the candidates
\* naming registered tools are still dispatched, in order.
C6_OnlyRegistryToolsDispatched ==
    plan_pc # "idle" =>
        /\ \A i \in DOMAIN sub_questions :
               sub_questions[i].tool_name \in RegistryNamesOfClaim
        /\ \A i \in DOMAIN tool_state :
               tool_state[i].tool_name \in RegistryNamesOfClaim
        /\ \A i \in DOMAIN candidates :
               candidates[i].tool_name \in RegistryNamesOfClaim
                   => \E j \in DOMAIN sub_questions : sub_questions[j] = candidates[i]
        /\ Len(sub_questions) >= 1

\* a decomposition naming an unknown tool and a registered one was dispatched
C6_Witness ==
    /\ plan_pc = "done"
    /\ \E i \in DOMAIN candidates : candidates[i].tool_name = UnknownTool
    /\ \E i \in DOMAIN candidates : candidates[i].tool_name = "database"
    /\ Len(sub_questions) = 1
    /\ sub_questions[1].tool_name = "database"

OkAnswers(answers) == { i \in DOMAIN answers : answers[i].status = "ok" }

\* C7: with N tools dispatched and K failed, in whatever order they ended:
\* a failed tool is recorded with no text; the plan is not decided while a
\* tool is still running; if K < N synthesis gives a non-empty answer made of
\* the N-K successes; if K = N the outcome is RetrievalUnavailable.
C7_PartialFailureTolerated ==
    LET n == Len(tool_state)
        k == NumFailed(tool_state)
    IN  /\ \A i \in DOMAIN tool_state :
               tool_state[i].status = "failed" => tool_state[i].answer_text = Empty
        /\ plan_pc = "dispatched" => plan_result.status = "none"
        /\ plan_pc = "done" =>
               /\ \A i \in DOMAIN tool_state : tool_state[i].status # "running"
               /\ k < n =>
                      /\ plan_result.status = "synthesized"
                      /\ plan_result.answer # Empty
                      /\ \A i \in OkAnswers(tool_state) :
                             Contains(plan_result.answer, tool_state[i].answer_text)
                      /\ Len(plan_result.answer) = Cardinality(OkAnswers(tool_state))
               /\ k = n => plan_result.status = "RetrievalUnavailable"

\* two tools dispatched, one failed and one answered, the plan synthesized
C7_Witness ==
    /\ plan_pc = "done"
    /\ Len(tool_state) = 2
    /\ NumFailed(tool_state) = 1
    /\ plan_result.status = "synthesized"

ErrorMarker == "[error]"

\* C8: when a pipeline fails after fragments were delivered, what the caller
\* received is the fragments produced before the failure, in order, followed
\* by a terminal error marker.
C8_FailureEndsWithErrorMarker ==
    \A r \in Req :
        (pc[r] = "raised" /\ out[r] # << >>) =>
            /\ out[r][Len(out[r])] = ErrorMarker
            /\ \A i \in 1..(Len(out[r]) - 1) : out[r][i] = Frag(i)

\* C9: no request writes a field of the shared instance, and the chat engine
\* a request is answered with is the one enter() built, never one another
\* request stored.
C9_SharedInstanceReadOnly ==
    /\ chat_engine = 0
    /\ \A r \in Req : handler[r].built => handler[r].chat_engine \in { 0, r }

BootTemplate == ContentTemplate(BootDay, DayName(BootDay))

\* C10: the context snapshot keeps the values enter() computed at startup,
\* and every handler is built with them: the scheduling handler gets the
\* startup date and the chat handlers the startup context text, whatever
\* the wall clock says by then.
C10_ContextSnapshotFixed ==
    /\ current_date = BootDay
    /\ day_name = DayName(BootDay)
    /\ content_template = BootTemplate
    /\ \A r \in Req :
           handler[r].built =>
               /\ pipeline[r] = SchedulingPipeline
                      => handler[r].current_date = BootDay
               /\ pipeline[r] \in { RetrievalPipeline, LiveWebPipeline }
                      => handler[r].user_info_content = BootTemplate

\* the wall clock has moved on, and a scheduling run and a retrieval run are
\* streaming with the startup date and the startup context text
C10_Witness ==
    /\ today > BootDay
    /\ today # current_date
    /\ \E r \in Req :
           /\ pipeline[r] = SchedulingPipeline
           /\ pc[r] = "streaming"
           /\ handler[r].current_date = BootDay
    /\ \E r \in Req :
           /\ pipeline[r] = RetrievalPipeline
           /\ pc[r] = "streaming"
           /\ handler[r].user_info_content.date = BootDay

CandidatesKnown == { i \in DOMAIN candidates : candidates[i].tool_name \in ToolNames }

\* C11: every plan dispatches at least one tool, one invocation per
\* sub-question; when no candidate is left (none returned, or all dropped for
\* naming an unknown tool) the original query goes to "NOTA" alone; and
\* "NOTA" is registered, exactly once.
C11_FallbackWhenNothingToDispatch ==
    /\ Cardinality({ i \in DOMAIN ToolsDataNames : ToolsDataNames[i] = "NOTA" }) = 1
    /\ { ToolsDataNames[i] : i \in DOMAIN ToolsDataNames } = ToolNames
    /\ plan_pc # "idle" =>
           /\ Len(sub_questions) >= 1
           /\ DOMAIN tool_state = DOMAIN sub_questions
           /\ \A i \in DOMAIN sub_questions :
                  /\ tool_state[i].tool_name = sub_questions[i].tool_name
                  /\ sub_questions[i].tool_name \in ToolNames
           /\ CandidatesKnown = {} =>
                  sub_questions = << [tool_name |-> "NOTA", query_text |-> Query] >>

\* every candidate named an unknown tool, and the query went to "NOTA" alone
C11_Witness ==
    /\ plan_pc = "done"
    /\ Len(candidates) = MaxSubQ
    /\ \A i \in DOMAIN candidates : candidates[i].tool_name = UnknownTool
    /\ Len(sub_questions) = 1
    /\ sub_questions[1].tool_name = "NOTA"
    /\ tool_state[1].tool_name = "NOTA"

====
